---- MODULE Spec2Model ----
(***************************************************************************)
(* State machine of the DebatePage component                               *)
(* (src/src/app/timed-debate/page.tsx): the React state of the component,  *)
(* one action per event handler, the interval callback of the timer effect *)
(* and the continuation of the fetch started by startDebate.               *)
(*                                                                         *)
(* A state of the model is a committed render: the state hooks, followed   *)
(* by the timer effect when one of its dependencies changed.  Handlers     *)
(* called from the rendered markup read the state of the current render.   *)
(* The interval callback reads the values captured by the render in which  *)
(* the timer effect last ran ("closure").                                  *)
(***************************************************************************)
EXTENDS Integers, Sequences, FiniteSets, TLC

VARIABLES
    userInput,          \* useState("")            draft text, a sequence of characters
    loading,            \* useState(false)
    stance,             \* useState("pro")
    conversations,      \* useState<Message[]>([])
    showTimerSettings,  \* useState(false)
    timerSettings,      \* useState({minutes, seconds, active})
    timeRemaining,      \* useState(120)
    soundEnabled,       \* useState(true)
    currentRound,       \* useState(0), 0-based as in the source
    rounds,             \* useState<RoundStructure[]>, a 1-based sequence
    timerRef,           \* TRUE iff timerRef.current is a live interval
    intervals,          \* number of live intervals (set and not yet cleared)
    mounted,            \* TRUE until the component is unmounted
    closure,            \* values captured by the live interval's callback
    pending,            \* number of fetch("/api/debate") calls not yet settled
    played,             \* audio cue played by the last step ("none" if none)
    returned,           \* TRUE iff the last step ran startDebate up to the return of line 146
    last,               \* name of the handler or callback run by the last step
    before,             \* timeRemaining, timerSettings.active, rounds.length and
                        \* currentRound before the last step
    run,                \* cues played so far in the current run of the timer
    ops                 \* number of user events handled so far

vars == <<userInput, loading, stance, conversations, showTimerSettings,
          timerSettings, timeRemaining, soundEnabled, currentRound, rounds,
          timerRef, intervals, mounted, closure, pending, played, returned,
          last, before, run, ops>>

-----------------------------------------------------------------------------
(* Bounds of the model *)

\* A behaviour holds at most this many user events (clicks, key presses,
\* input changes); timer ticks and service replies are not counted.
MaxUserOps == 4

-----------------------------------------------------------------------------
(* Text *)

Blank == " "

\* Drafts the user can put in the textarea (onChange, line 619).
Drafts == { <<>>, <<Blank>>, <<Blank, "a">>, <<"b", Blank>> }

\* String.prototype.trim: strips leading and trailing white space.
RECURSIVE TrimLeft(_)
TrimLeft(s) ==
    IF s = <<>> THEN <<>>
    ELSE IF Head(s) = Blank THEN TrimLeft(Tail(s)) ELSE s

RECURSIVE TrimRight(_)
TrimRight(s) ==
    IF s = <<>> THEN <<>>
    ELSE IF s[Len(s)] = Blank THEN TrimRight(SubSeq(s, 1, Len(s) - 1)) ELSE s

\* Variant of Trim: the guard tests the draft as typed.
TrimNone(s) == s

Trim(s) == TrimRight(TrimLeft(s))

\* Truthiness of a string: the empty string is falsy.
Truthy(s) == s # <<>>

-----------------------------------------------------------------------------
(* Number inputs: e.target.value of an <input type="number"> and parseInt *)

Digits == {"0", "1", "2", "3", "4", "5", "6", "7", "8", "9"}

DigitVal(c) ==
    CASE c = "0" -> 0 [] c = "1" -> 1 [] c = "2" -> 2 [] c = "3" -> 3
      [] c = "4" -> 4 [] c = "5" -> 5 [] c = "6" -> 6 [] c = "7" -> 7
      [] c = "8" -> 8 [] c = "9" -> 9

\* Value of the longest prefix of digits of s, and whether there is one.
RECURSIVE ParseDigits(_, _, _)
ParseDigits(s, acc, any) ==
    IF s # <<>> /\ Head(s) \in Digits
    THEN ParseDigits(Tail(s), acc * 10 + DigitVal(Head(s)), TRUE)
    ELSE [nan |-> ~any, val |-> acc]

\* parseInt(s): optional sign, then digits; NaN when no digit follows.
ParseInt(s) ==
    IF s # <<>> /\ Head(s) = "-"
    THEN LET p == ParseDigits(Tail(s), 0, FALSE)
         IN  [nan |-> p.nan, val |-> 0 - p.val]
    ELSE ParseDigits(s, 0, FALSE)

\* parseInt(s) || dflt: NaN and 0 are falsy.
ParseIntOr(s, dflt) ==
    LET p == ParseInt(s)
    IN  IF p.nan \/ p.val = 0 THEN dflt ELSE p.val

\* a % b of JavaScript for b > 0: the result has the sign of a.
JsRem(a, b) == IF a >= 0 THEN a % b ELSE 0 - ((0 - a) % b)

-----------------------------------------------------------------------------
(* Messages *)

NoStance == "undefined"
Undefined == <<"undefined">>
ErrorText == <<"Unable to generate response. Please try again.">>

\* newUserMessage (lines 149-153)
UserMessage(text, st) ==
    [type |-> "user", content |-> text, stance |-> st, isError |-> FALSE]

\* newAIMessage (lines 172-175)
AIMessage(text) ==
    [type |-> "ai", content |-> text, stance |-> NoStance, isError |-> FALSE]

\* errorMessage (lines 180-184)
ErrorMessage ==
    [type |-> "ai", content |-> ErrorText, stance |-> NoStance, isError |-> TRUE]

-----------------------------------------------------------------------------
(* The response service, as fetch and res.json() see it *)

\* A settled call: fetch rejects (network error) or resolves with a status
\* and a body; the body is JSON holding aiResponse, the JSON value null,
\* other JSON, or no JSON.
Outcomes ==
    [rejects : {TRUE}, status : {0}, body : {"none"}]
      \cup [rejects : {FALSE}, status : {200, 500},
            body : {"aiResponse", "nullJson", "otherJson", "notJson"}]

\* Text of aiResponse in a body that holds one.
ReplyText == <<"r">>

\* The entry appended for a settled call (lines 162-186): the catch block
\* runs when fetch rejects, when res.json() throws and when the read of
\* data.aiResponse throws (data is null); res.status is not read.
ReplyMessage(o) ==
    IF o.rejects \/ o.body \in {"notJson", "nullJson"} THEN ErrorMessage
    ELSE IF o.body = "aiResponse" THEN AIMessage(ReplyText)
    ELSE AIMessage(Undefined)

-----------------------------------------------------------------------------
(* Timer *)

\* timerSettings.minutes * 60 + timerSettings.seconds (lines 114, 126)
TotalSeconds(ts) == ts.minutes * 60 + ts.seconds

\* Variant of Cue: a threshold is met by every value at or below it.
CueAtOrBelow(newTime, sound) ==
    IF ~sound THEN "none"
    ELSE IF newTime <= 0 THEN "timeUp"
    ELSE IF newTime <= 5 THEN "fiveSecond"
    ELSE IF newTime <= 15 THEN "fifteenSecond"
    ELSE IF newTime <= 30 THEN "thirtySecond"
    ELSE "none"

\* Variant of Cue: the thresholds are tested on the value before the
\* decrement.
CueBefore(newTime, sound) ==
    IF ~sound THEN "none"
    ELSE IF newTime + 1 = 30 THEN "thirtySecond"
    ELSE IF newTime + 1 = 15 THEN "fifteenSecond"
    ELSE IF newTime + 1 = 5 THEN "fiveSecond"
    ELSE IF newTime + 1 = 0 THEN "timeUp"
    ELSE "none"

\* The cue played for a post-decrement value (lines 84-89).
Cue(newTime, sound) ==
    IF ~sound THEN "none"
    ELSE IF newTime = 30 THEN "thirtySecond"
    ELSE IF newTime = 15 THEN "fifteenSecond"
    ELSE IF newTime = 5 THEN "fiveSecond"
    ELSE IF newTime = 0 THEN "timeUp"
    ELSE "none"

\* The closure of a render that no live interval refers to.
NoClosure ==
    [userInput |-> <<>>, stance |-> "pro", conversations |-> <<>>,
     minutes |-> 0, seconds |-> 0, soundEnabled |-> FALSE]

\* Variant of TimerEffect: the effect returns no cleanup, so that only the
\* else branch of its body (lines 99-103) clears an interval.
TimerEffectNoCleanup ==
    IF timerSettings'.active # timerSettings.active
         \/ timeRemaining' # timeRemaining
    THEN /\ timerRef' = (timerSettings'.active /\ timeRemaining' > 0)
         /\ intervals' =
              IF timerRef' THEN intervals + 1
              ELSE IF timerRef THEN intervals - 1 ELSE intervals
         /\ closure' =
              IF timerRef'
              THEN [userInput |-> userInput', stance |-> stance',
                    conversations |-> conversations',
                    minutes |-> timerSettings'.minutes,
                    seconds |-> timerSettings'.seconds,
                    soundEnabled |-> soundEnabled']
              ELSE NoClosure
    ELSE UNCHANGED <<timerRef, intervals, closure>>

\* The timer effect (lines 77-110), run after a commit in which
\* timerSettings.active or timeRemaining changed: the cleanup of the previous
\* run clears the interval timerRef.current refers to (lines 105-109), then a
\* new interval is set iff the timer is active with time left (lines 78-98);
\* its callback captures the state of the committing render.  Clearing an
\* interval that is already cleared does nothing (lines 99-103).
TimerEffect ==
    IF timerSettings'.active # timerSettings.active
         \/ timeRemaining' # timeRemaining
    THEN LET cleaned == IF timerRef THEN intervals - 1 ELSE intervals
         IN  /\ timerRef' = (timerSettings'.active /\ timeRemaining' > 0)
             /\ intervals' = IF timerRef' THEN cleaned + 1 ELSE cleaned
             /\ closure' =
                  IF timerRef'
                  THEN [userInput |-> userInput', stance |-> stance',
                        conversations |-> conversations',
                        minutes |-> timerSettings'.minutes,
                        seconds |-> timerSettings'.seconds,
                        soundEnabled |-> soundEnabled']
                  ELSE NoClosure
    ELSE UNCHANGED <<timerRef, intervals, closure>>

\* The step runs the handler or callback called name.
Handled(name) ==
    /\ last' = name
    /\ before' = [remaining |-> timeRemaining, active |-> timerSettings.active,
                  rounds |-> Len(rounds), cursor |-> currentRound]

\* One more user event on the mounted component.
UserOp == mounted /\ mounted' = mounted /\ ops < MaxUserOps /\ ops' = ops + 1

\* The run of the timer that no cue log is kept for.
NoRun == [on |-> FALSE, start |-> 0, cues |-> <<>>]

\* Log of the current run of the timer.  A run begins when startTimer makes
\* the timer effect run with sound enabled, and it holds the remaining time
\* it began with and the cues played by its ticks.  The log is dropped when
\* the run is interrupted (the timer is made inactive or the remaining time
\* is loaded by a handler), when sound is toggled and at unmount.
RunLog ==
    run' =
      IF last' = "Tick"
      THEN IF run.on /\ played' # "none"
           THEN [run EXCEPT !.cues = Append(@, played')]
           ELSE run
      ELSE IF /\ last' \in {"StartTimerClick", "QuickStart"}
              /\ (timerSettings'.active # timerSettings.active
                    \/ timeRemaining' # timeRemaining)
      THEN IF soundEnabled'
           THEN [on |-> TRUE, start |-> timeRemaining', cues |-> <<>>]
           ELSE NoRun
      ELSE IF \/ ~timerSettings'.active
              \/ timeRemaining' # timeRemaining
              \/ soundEnabled' # soundEnabled
              \/ ~mounted'
      THEN NoRun
      ELSE run

-----------------------------------------------------------------------------
(* startDebate (lines 145-160), up to the fetch, in a render holding
   userInput = ui, stance = st, conversations = conv, timerSettings = ts *)

StartDebate(ui, st, conv, ts) ==
    IF ~Truthy(Trim(ui))
    THEN /\ returned' = TRUE
         /\ UNCHANGED <<userInput, loading, conversations, timerSettings, pending>>
    ELSE /\ returned' = FALSE
         /\ conversations' = Append(conv, UserMessage(ui, st))
         /\ loading' = TRUE
         /\ userInput' = <<>>
         /\ timerSettings' = [ts EXCEPT !.active = FALSE]
         /\ pending' = pending + 1

-----------------------------------------------------------------------------
(* Initial state: the useState initialisers (lines 27-48); the timer effect
   of the first render sets no interval, the timer being inactive *)

InitialMinutes == 2
InitialTimeRemaining == 120

InitialRounds ==
    << [name |-> <<"Opening Statement">>, duration |-> 120],
       [name |-> <<"Rebuttal">>, duration |-> 180],
       [name |-> <<"Closing Statement">>, duration |-> 60] >>

Init ==
    /\ userInput = <<>>
    /\ loading = FALSE
    /\ stance = "pro"
    /\ conversations = <<>>
    /\ showTimerSettings = FALSE
    /\ timerSettings = [minutes |-> InitialMinutes, seconds |-> 0, active |-> FALSE]
    /\ timeRemaining = InitialTimeRemaining
    /\ soundEnabled = TRUE
    /\ currentRound = 0
    /\ rounds = InitialRounds
    /\ timerRef = FALSE
    /\ intervals = 0
    /\ mounted = TRUE
    /\ closure = NoClosure
    /\ pending = 0
    /\ played = "none"
    /\ returned = FALSE
    /\ last = "mount"
    /\ before = [remaining |-> InitialTimeRemaining, active |-> FALSE,
                 rounds |-> Len(InitialRounds), cursor |-> 0]
    /\ run = NoRun
    /\ ops = 0

-----------------------------------------------------------------------------
(* Submission flow *)

\* textarea onChange (line 619)
SetUserInput(d) ==
    /\ Handled("SetUserInput")
    /\ UserOp
    /\ userInput' = d
    /\ played' = "none" /\ returned' = FALSE
    /\ UNCHANGED <<loading, stance, conversations, showTimerSettings,
                   timerSettings, timeRemaining, soundEnabled, currentRound,
                   rounds, pending>>
    /\ TimerEffect
    /\ RunLog

\* stance buttons (lines 592, 602)
SetStance(s) ==
    /\ Handled("SetStance")
    /\ UserOp
    /\ stance' = s
    /\ played' = "none" /\ returned' = FALSE
    /\ UNCHANGED <<userInput, loading, conversations, showTimerSettings,
                   timerSettings, timeRemaining, soundEnabled, currentRound,
                   rounds, pending>>
    /\ TimerEffect
    /\ RunLog

\* send button (lines 630-632): not clickable while disabled
SendClick ==
    /\ Handled("SendClick")
    /\ UserOp
    /\ ~(loading \/ ~Truthy(Trim(userInput)))
    /\ StartDebate(userInput, stance, conversations, timerSettings)
    /\ played' = "none"
    /\ UNCHANGED <<stance, showTimerSettings, timeRemaining, soundEnabled,
                   currentRound, rounds>>
    /\ TimerEffect
    /\ RunLog

\* handleKeyDown (lines 192-197)
KeyDown(key, shiftKey) ==
    /\ Handled("KeyDown")
    /\ UserOp
    /\ IF key = "Enter" /\ ~shiftKey
       THEN StartDebate(userInput, stance, conversations, timerSettings)
       ELSE /\ returned' = FALSE
            /\ UNCHANGED <<userInput, loading, conversations, timerSettings, pending>>
    /\ played' = "none"
    /\ UNCHANGED <<stance, showTimerSettings, timeRemaining, soundEnabled,
                   currentRound, rounds>>
    /\ TimerEffect
    /\ RunLog

\* continuation of startDebate after the awaits (lines 169-189): the call
\* settles whether or not the component is still mounted; the setters of an
\* unmounted component do nothing
Reply(o) ==
    /\ Handled("Reply")
    /\ mounted' = mounted
    /\ pending > 0
    /\ IF mounted
       THEN /\ conversations' = Append(conversations, ReplyMessage(o))
            /\ loading' = FALSE
       ELSE UNCHANGED <<conversations, loading>>
    /\ pending' = pending - 1
    /\ played' = "none" /\ returned' = FALSE
    /\ UNCHANGED <<userInput, stance, showTimerSettings, timerSettings,
                   timeRemaining, soundEnabled, currentRound, rounds, ops>>
    /\ TimerEffect
    /\ RunLog

-----------------------------------------------------------------------------
(* Timer *)

\* interval callback (lines 79-98) of a live interval, with the values its
\* closure captured
Tick ==
    /\ Handled("Tick")
    /\ intervals > 0
    /\ mounted' = mounted
    /\ LET newTime == timeRemaining - 1
       IN  /\ played' = Cue(newTime, closure.soundEnabled)
           /\ IF newTime = 0 /\ Truthy(Trim(closure.userInput))
              THEN StartDebate(closure.userInput, closure.stance,
                               closure.conversations,
                               [minutes |-> closure.minutes,
                                seconds |-> closure.seconds, active |-> TRUE])
              ELSE /\ returned' = FALSE
                   /\ UNCHANGED <<userInput, loading, conversations,
                                  timerSettings, pending>>
           /\ timeRemaining' = newTime
    /\ UNCHANGED <<stance, showTimerSettings, soundEnabled, currentRound,
                   rounds, ops>>
    /\ TimerEffect
    /\ RunLog

\* Variant of StartTimer: the countdown resumes from the remaining time.
StartTimerResume(ts) ==
    /\ timeRemaining' = timeRemaining
    /\ timerSettings' = [ts EXCEPT !.active = TRUE]
    /\ showTimerSettings' = FALSE

\* startTimer (lines 112-118), in a render holding timerSettings = ts
StartTimer(ts) ==
    /\ timeRemaining' = TotalSeconds(ts)
    /\ timerSettings' = [ts EXCEPT !.active = TRUE]
    /\ showTimerSettings' = FALSE

\* header start button (line 238, rendered while inactive) and the
\* Start Timer button of the settings panel (line 434)
StartTimerClick ==
    /\ Handled("StartTimerClick")
    /\ UserOp
    /\ ~timerSettings.active \/ showTimerSettings
    /\ StartTimer(timerSettings)
    /\ played' = "none" /\ returned' = FALSE
    /\ UNCHANGED <<userInput, loading, stance, conversations, soundEnabled,
                   currentRound, rounds, pending>>
    /\ TimerEffect
    /\ RunLog

\* Variant of PauseTimer: the settings are left as they are.
PauseTimerNoop(ts) == ts

\* pauseTimer (lines 120-122)
PauseTimer(ts) == [ts EXCEPT !.active = FALSE]

\* header pause button (line 245, rendered while active)
PauseTimerClick ==
    /\ Handled("PauseTimerClick")
    /\ UserOp
    /\ timerSettings.active
    /\ timerSettings' = PauseTimer(timerSettings)
    /\ played' = "none" /\ returned' = FALSE
    /\ UNCHANGED <<userInput, loading, stance, conversations,
                   showTimerSettings, timeRemaining, soundEnabled,
                   currentRound, rounds, pending>>
    /\ TimerEffect
    /\ RunLog

\* resetTimer (lines 124-127), header reset button (line 254)
ResetTimerClick ==
    /\ Handled("ResetTimerClick")
    /\ UserOp
    /\ timerSettings' = PauseTimer(timerSettings)
    /\ timeRemaining' = TotalSeconds(timerSettings)
    /\ played' = "none" /\ returned' = FALSE
    /\ UNCHANGED <<userInput, loading, stance, conversations,
                   showTimerSettings, soundEnabled, currentRound, rounds,
                   pending>>
    /\ TimerEffect
    /\ RunLog

\* quick timer start buttons (lines 477-518), rendered while the transcript
\* is empty: the setters of the handler are batched, and startTimer reads
\* the timerSettings of the render the button belongs to
QuickStart(n) ==
    /\ Handled("QuickStart")
    /\ UserOp
    /\ conversations = <<>>
    /\ LET first == [minutes |-> n, seconds |-> 0, active |-> FALSE]
           firstRemaining == n * 60
       IN  \* setTimerSettings(first) and setTimeRemaining(firstRemaining) are
           \* queued, then replaced by the two setters of startTimer
           /\ first.minutes * 60 = firstRemaining
           /\ StartTimer(timerSettings)
    /\ played' = "none" /\ returned' = FALSE
    /\ UNCHANGED <<userInput, loading, stance, conversations, soundEnabled,
                   currentRound, rounds, pending>>
    /\ TimerEffect
    /\ RunLog

\* settings button (line 273)
ToggleTimerSettings ==
    /\ Handled("ToggleTimerSettings")
    /\ UserOp
    /\ showTimerSettings' = ~showTimerSettings
    /\ played' = "none" /\ returned' = FALSE
    /\ UNCHANGED <<userInput, loading, stance, conversations, timerSettings,
                   timeRemaining, soundEnabled, currentRound, rounds, pending>>
    /\ TimerEffect
    /\ RunLog

\* Cancel button of the settings panel (line 428)
CancelSettings ==
    /\ Handled("CancelSettings")
    /\ UserOp
    /\ showTimerSettings
    /\ showTimerSettings' = FALSE
    /\ played' = "none" /\ returned' = FALSE
    /\ UNCHANGED <<userInput, loading, stance, conversations, timerSettings,
                   timeRemaining, soundEnabled, currentRound, rounds, pending>>
    /\ TimerEffect
    /\ RunLog

\* sound toggle (line 281)
ToggleSound ==
    /\ Handled("ToggleSound")
    /\ UserOp
    /\ soundEnabled' = ~soundEnabled
    /\ played' = "none" /\ returned' = FALSE
    /\ UNCHANGED <<userInput, loading, stance, conversations,
                   showTimerSettings, timerSettings, timeRemaining,
                   currentRound, rounds, pending>>
    /\ TimerEffect
    /\ RunLog

\* Values typed in the minutes and seconds inputs.
MinuteInputs == { <<"0">>, <<"-", "1">> }
SecondInputs == { <<>>, <<"5">>, <<"-", "1">> }

\* minutes input onChange (lines 322-327)
SetMinutes(v) ==
    /\ Handled("SetMinutes")
    /\ UserOp
    /\ showTimerSettings
    /\ timerSettings' = [timerSettings EXCEPT !.minutes = ParseIntOr(v, 0)]
    /\ played' = "none" /\ returned' = FALSE
    /\ UNCHANGED <<userInput, loading, stance, conversations,
                   showTimerSettings, timeRemaining, soundEnabled,
                   currentRound, rounds, pending>>
    /\ TimerEffect
    /\ RunLog

\* seconds input onChange (lines 336-341)
SetSeconds(v) ==
    /\ Handled("SetSeconds")
    /\ UserOp
    /\ showTimerSettings
    /\ timerSettings' = [timerSettings EXCEPT !.seconds = ParseIntOr(v, 0)]
    /\ played' = "none" /\ returned' = FALSE
    /\ UNCHANGED <<userInput, loading, stance, conversations,
                   showTimerSettings, timeRemaining, soundEnabled,
                   currentRound, rounds, pending>>
    /\ TimerEffect
    /\ RunLog

-----------------------------------------------------------------------------
(* Round plan *)

\* String(n) for n >= 0, as a sequence of digit characters.
DigitChar(d) ==
    CASE d = 0 -> "0" [] d = 1 -> "1" [] d = 2 -> "2" [] d = 3 -> "3"
      [] d = 4 -> "4" [] d = 5 -> "5" [] d = 6 -> "6" [] d = 7 -> "7"
      [] d = 8 -> "8" [] d = 9 -> "9"

RECURSIVE NumToStr(_)
NumToStr(n) ==
    IF n < 10 THEN <<DigitChar(n)>>
    ELSE Append(NumToStr(n \div 10), DigitChar(n % 10))

\* Duration of an added round (line 417).
AddedDuration == 120

\* Default of the duration input (line 373).
DefaultDuration == 60

\* Values typed in a round's name and duration inputs.
NameInputs == { <<"X">> }
DurationInputs == { <<>>, <<"3">>, <<"-", "5">> }

\* Indices of the plan, 0-based as in the source.
RoundIndices == 0 .. (Len(rounds) - 1)

\* rounds.filter((_, i) => i !== index) (lines 384-386)
RECURSIVE FilterOut(_, _, _)
FilterOut(rs, index, i) ==
    IF rs = <<>> THEN <<>>
    ELSE IF i = index THEN FilterOut(Tail(rs), index, i + 1)
    ELSE <<Head(rs)>> \o FilterOut(Tail(rs), index, i + 1)

\* nextRound (lines 129-143); the button is rendered under the same
\* condition (line 292)
NextRoundClick ==
    /\ Handled("NextRoundClick")
    /\ UserOp
    /\ currentRound < Len(rounds) - 1
    /\ LET nextRoundIndex == currentRound + 1
           nextDuration == rounds[nextRoundIndex + 1].duration
       IN  /\ currentRound' = nextRoundIndex
           /\ timerSettings' = [minutes |-> nextDuration \div 60,
                                seconds |-> JsRem(nextDuration, 60),
                                active |-> FALSE]
           /\ timeRemaining' = nextDuration
    /\ played' = "none" /\ returned' = FALSE
    /\ UNCHANGED <<userInput, loading, stance, conversations,
                   showTimerSettings, soundEnabled, rounds, pending>>
    /\ TimerEffect
    /\ RunLog

\* round name input onChange (lines 359-363)
RenameRound(index, v) ==
    /\ Handled("RenameRound")
    /\ UserOp
    /\ showTimerSettings
    /\ index \in RoundIndices
    /\ rounds' = [rounds EXCEPT ![index + 1].name = v]
    /\ played' = "none" /\ returned' = FALSE
    /\ UNCHANGED <<userInput, loading, stance, conversations,
                   showTimerSettings, timerSettings, timeRemaining,
                   soundEnabled, currentRound, pending>>
    /\ TimerEffect
    /\ RunLog

\* Variant of SetRoundDuration: a new duration of the active round is loaded
\* into the timer, which is left paused.
SetRoundDurationLoads(index, v) ==
    /\ Handled("SetRoundDuration")
    /\ UserOp
    /\ showTimerSettings
    /\ index \in RoundIndices
    /\ LET d == ParseIntOr(v, DefaultDuration)
       IN  /\ rounds' = [rounds EXCEPT ![index + 1].duration = d]
           /\ IF index = currentRound
              THEN /\ timerSettings' = [minutes |-> d \div 60,
                                        seconds |-> JsRem(d, 60),
                                        active |-> FALSE]
                   /\ timeRemaining' = d
              ELSE UNCHANGED <<timerSettings, timeRemaining>>
    /\ played' = "none" /\ returned' = FALSE
    /\ UNCHANGED <<userInput, loading, stance, conversations,
                   showTimerSettings, soundEnabled, currentRound, pending>>
    /\ TimerEffect
    /\ RunLog

\* round duration input onChange (lines 370-375)
SetRoundDuration(index, v) ==
    /\ Handled("SetRoundDuration")
    /\ UserOp
    /\ showTimerSettings
    /\ index \in RoundIndices
    /\ rounds' = [rounds EXCEPT ![index + 1].duration = ParseIntOr(v, DefaultDuration)]
    /\ played' = "none" /\ returned' = FALSE
    /\ UNCHANGED <<userInput, loading, stance, conversations,
                   showTimerSettings, timerSettings, timeRemaining,
                   soundEnabled, currentRound, pending>>
    /\ TimerEffect
    /\ RunLog

\* Variant of RemoveRound: the button is rendered for a plan of one round
\* too.
RemoveRoundAlways(index) ==
    /\ Handled("RemoveRound")
    /\ UserOp
    /\ showTimerSettings
    /\ index \in RoundIndices
    /\ LET newRounds == FilterOut(rounds, index, 0)
       IN  /\ rounds' = newRounds
           /\ currentRound' =
                IF currentRound >= Len(newRounds)
                THEN Len(newRounds) - 1 ELSE currentRound
    /\ played' = "none" /\ returned' = FALSE
    /\ UNCHANGED <<userInput, loading, stance, conversations,
                   showTimerSettings, timerSettings, timeRemaining,
                   soundEnabled, pending>>
    /\ TimerEffect
    /\ RunLog

\* Variant of RemoveRound: currentRound is left as it is.
RemoveRoundNoClamp(index) ==
    /\ Handled("RemoveRound")
    /\ UserOp
    /\ showTimerSettings
    /\ index \in RoundIndices
    /\ IF Len(rounds) > 1
       THEN rounds' = FilterOut(rounds, index, 0)
       ELSE rounds' = rounds
    /\ currentRound' = currentRound
    /\ played' = "none" /\ returned' = FALSE
    /\ UNCHANGED <<userInput, loading, stance, conversations,
                   showTimerSettings, timerSettings, timeRemaining,
                   soundEnabled, pending>>
    /\ TimerEffect
    /\ RunLog

\* remove round control of a round's row (lines 381-391): the button is
\* rendered while the plan holds more than one round, and a row without the
\* button offers no removal
RemoveRound(index) ==
    /\ Handled("RemoveRound")
    /\ UserOp
    /\ showTimerSettings
    /\ index \in RoundIndices
    /\ IF Len(rounds) > 1
       THEN LET newRounds == FilterOut(rounds, index, 0)
            IN  /\ rounds' = newRounds
                /\ currentRound' =
                     IF currentRound >= Len(newRounds)
                     THEN Len(newRounds) - 1 ELSE currentRound
       ELSE UNCHANGED <<rounds, currentRound>>
    /\ played' = "none" /\ returned' = FALSE
    /\ UNCHANGED <<userInput, loading, stance, conversations,
                   showTimerSettings, timerSettings, timeRemaining,
                   soundEnabled, pending>>
    /\ TimerEffect
    /\ RunLog

\* add round button (lines 413-419)
AddRound ==
    /\ Handled("AddRound")
    /\ UserOp
    /\ showTimerSettings
    /\ rounds' = Append(rounds,
                        [name |-> <<"Round ">> \o NumToStr(Len(rounds) + 1),
                         duration |-> AddedDuration])
    /\ played' = "none" /\ returned' = FALSE
    /\ UNCHANGED <<userInput, loading, stance, conversations,
                   showTimerSettings, timerSettings, timeRemaining,
                   soundEnabled, currentRound, pending>>
    /\ TimerEffect
    /\ RunLog

\* unmount of the component: the cleanups of the two effects clear the
\* interval timerRef.current refers to (lines 68-73, 105-109)
Unmount ==
    /\ Handled("Unmount")
    /\ mounted /\ mounted' = FALSE
    /\ ops < MaxUserOps /\ ops' = ops + 1
    /\ intervals' = IF timerRef THEN intervals - 1 ELSE intervals
    /\ timerRef' = FALSE
    /\ closure' = NoClosure
    /\ played' = "none" /\ returned' = FALSE
    /\ UNCHANGED <<userInput, loading, stance, conversations,
                   showTimerSettings, timerSettings, timeRemaining,
                   soundEnabled, currentRound, rounds, pending>>
    /\ RunLog

-----------------------------------------------------------------------------
(* Specification *)

Keys == {"Enter", "a"}
Stances == {"pro", "con"}
QuickMinutes == {1, 2, 3}

Next ==
    \/ \E d \in Drafts : SetUserInput(d)
    \/ \E s \in Stances : SetStance(s)
    \/ SendClick
    \/ \E k \in Keys, sh \in BOOLEAN : KeyDown(k, sh)
    \/ \E o \in Outcomes : Reply(o)
    \/ Tick
    \/ StartTimerClick
    \/ PauseTimerClick
    \/ ResetTimerClick
    \/ \E n \in QuickMinutes : QuickStart(n)
    \/ ToggleTimerSettings
    \/ CancelSettings
    \/ ToggleSound
    \/ \E v \in MinuteInputs : SetMinutes(v)
    \/ \E v \in SecondInputs : SetSeconds(v)
    \/ NextRoundClick
    \/ \E i \in 0 .. Len(rounds), v \in NameInputs : RenameRound(i, v)
    \/ \E i \in 0 .. Len(rounds), v \in DurationInputs : SetRoundDuration(i, v)
    \/ \E i \in 0 .. Len(rounds) : RemoveRound(i)
    \/ AddRound
    \/ Unmount

Spec == Init /\ [][Next]_vars

\* The service settles every call: fetch resolves or rejects.
FairSpec == Spec /\ WF_vars(\E o \in Outcomes : Reply(o))

-----------------------------------------------------------------------------
(* Properties *)

IsPrefix(s, t) == Len(s) <= Len(t) /\ SubSeq(t, 1, Len(s)) = s

NumUser(conv) == Cardinality({i \in DOMAIN conv : conv[i].type = "user"})

NumReply(conv) == Cardinality({i \in DOMAIN conv : conv[i].type = "ai"})

\* A draft holding nothing but white space.
IsBlankDraft(s) == \A i \in DOMAIN s : s[i] = Blank

\* The step appends exactly one entry, of the given type, to the transcript.
AppendsOne(type) ==
    /\ Len(conversations') = Len(conversations) + 1
    /\ IsPrefix(conversations, conversations')
    /\ conversations'[Len(conversations')].type = type

\* The step is a submit by the send button or by Enter in the draft field.
ManualSubmit == SendClick \/ KeyDown("Enter", FALSE)

\* C1: while the controller is AwaitingResponse (loading), no step starts
\* another service call or adds a UserArgument to the transcript.
C1_SingleFlight ==
    [][loading => /\ pending' <= pending
                  /\ NumUser(conversations') <= NumUser(conversations)]_vars

\* C2: the transcript is append-only: in every step the transcript before
\* the step is a prefix of the transcript after it.
C2_AppendOnly == [][IsPrefix(conversations, conversations')]_vars

\* C3: the tick that brings remainingSeconds to 0 while the pending draft is
\* non-empty appends exactly one UserArgument and starts exactly one service
\* call, and no tick happens at 0.
C3_AutoSubmitOnce ==
    [][last' = "Tick" =>
         /\ timeRemaining > 0
         /\ (timeRemaining' = 0 /\ ~IsBlankDraft(userInput)) =>
               (AppendsOne("user") /\ pending' = pending + 1)]_vars

\* The step is a submit: by the send button, by Enter in the draft field, or
\* by the expiring tick of the timer when it starts a service call.
Submit == ManualSubmit \/ (last' = "Tick" /\ pending' = pending + 1)

\* C4: a submit from Idle (send button, Enter or timer expiry) with a draft
\* that is non-empty after trimming appends one UserArgument with the draft
\* text and the currently selected stance, clears the draft, stops the timer
\* and makes the controller AwaitingResponse with one more call in flight.
C4_SubmitFromIdle ==
    [][(Submit /\ ~loading /\ ~IsBlankDraft(userInput)) =>
         /\ conversations' =
              Append(conversations,
                     [type |-> "user", content |-> userInput,
                      stance |-> stance, isError |-> FALSE])
         /\ userInput' = <<>>
         /\ ~timerSettings'.active
         /\ timerSettings'.minutes = timerSettings.minutes
         /\ timerSettings'.seconds = timerSettings.seconds
         /\ loading'
         /\ pending' = pending + 1]_vars

\* C5: a submit (send button or Enter) with an empty or white-space draft
\* changes nothing of the transcript, the draft, loading and the timer, and
\* starts no service call.
C5_EmptySubmitNoOp ==
    [][(ManualSubmit /\ IsBlankDraft(userInput)) =>
         UNCHANGED <<conversations, userInput, loading, timerSettings,
                     timeRemaining, timerRef, pending>>]_vars

\* C5 witness: Enter was pressed on a white-space draft while a call was in
\* flight, and startDebate returned at its guard.
C5_Witness ==
    /\ last = "KeyDown" /\ returned
    /\ userInput = <<Blank>>
    /\ loading /\ pending = 1
    /\ Len(conversations) = 1

\* A settled call that is a failure of the service: a network error, a
\* non-success status, or a payload without aiResponse.
IsFailure(o) == o.rejects \/ o.status # 200 \/ o.body # "aiResponse"

\* C6: every failure of the response service, settled while the view is
\* mounted, appends exactly one FailedReply (the fixed placeholder, marked as
\* an error) and returns to Idle.
C6_FailureYieldsFailedReply ==
    [][\A o \in Outcomes : (Reply(o) /\ mounted /\ IsFailure(o)) =>
          (conversations' = Append(conversations, ErrorMessage) /\ ~loading')]_vars

\* C7: a call settled while the view is mounted appends exactly one reply
\* entry, a FailedReply when the call failed and a GeneratedReply when it
\* succeeded, and starts no
\* other call; a reply entry is appended only for a settled call; the
\* transcript never holds more replies than user arguments; and a loading
\* controller of a mounted view returns to Idle.
C7_OneReplyPerCall ==
    /\ [][/\ \A o \in Outcomes : (Reply(o) /\ mounted) =>
               /\ pending' = pending - 1
               /\ AppendsOne("ai")
               /\ conversations'[Len(conversations')].isError = IsFailure(o)
          /\ NumReply(conversations') > NumReply(conversations) =>
               pending' = pending - 1]_vars
    /\ [](NumReply(conversations) <= NumUser(conversations))
    /\ ((loading /\ mounted) ~> (~loading \/ ~mounted))

\* C8: the timer is never running with remainingSeconds = 0.
C8_StopsAtZero == ~(timerSettings.active /\ timeRemaining = 0)

\* C9: remainingSeconds >= 0 in every reachable state.
C9_NonNegative == timeRemaining >= 0

\* C10 as stated: start() while running, or at remainingSeconds = 0, leaves
\* remainingSeconds and isRunning as they were.
C10_StartNoEffect ==
    [][(last' = "StartTimerClick" /\ (timerSettings.active \/ timeRemaining = 0)) =>
         /\ timeRemaining' = timeRemaining
         /\ timerSettings'.active = timerSettings.active]_vars

\* C10 amended: start() while running, or at remainingSeconds = 0, loads the
\* configured duration and leaves the timer running; the configured
\* duration is unchanged.
C10_StartReloads ==
    [][(last' = "StartTimerClick" /\ (timerSettings.active \/ timeRemaining = 0)) =>
         /\ timeRemaining' = timerSettings.minutes * 60 + timerSettings.seconds
         /\ timerSettings'.active
         /\ timerSettings'.minutes = timerSettings.minutes
         /\ timerSettings'.seconds = timerSettings.seconds]_vars

\* C10 witness: Start Timer was pressed in the settings panel while the timer
\* was running at 0, and the configured two minutes are loaded again.
C10_Witness ==
    /\ last = "StartTimerClick"
    /\ before.remaining = 0 /\ before.active
    /\ timeRemaining = 120
    /\ timerSettings.active

\* C11: start() on a paused timer with remainingSeconds > 0 only sets
\* isRunning: remainingSeconds and the configured duration are unchanged.
C11_StartResumes ==
    [][(last' = "StartTimerClick" /\ ~timerSettings.active /\ timeRemaining > 0) =>
         /\ timerSettings'.active
         /\ timeRemaining' = timeRemaining
         /\ timerSettings'.minutes = timerSettings.minutes
         /\ timerSettings'.seconds = timerSettings.seconds]_vars

\* C12: while the timer is paused or reset (not running), and after the view
\* is torn down, no interval is live and no tick is applied, until the timer
\* is started again; and at most one interval is live at any time.
C12_NoTickAfterCancel ==
    /\ [](intervals <= 1)
    /\ []((~timerSettings.active \/ ~mounted) => intervals = 0)
    /\ [][(~timerSettings.active \/ ~mounted) => last' # "Tick"]_vars

\* C12 witness: the view was torn down while the timer was running at 1:59,
\* and no interval is left.
C12_Witness ==
    /\ last = "Unmount" /\ ~mounted
    /\ before.remaining = 119 /\ before.active
    /\ timerSettings.active
    /\ intervals = 0

\* C13: after reset() the timer is not running and remainingSeconds is
\* configuredMinutes * 60 + configuredSeconds.
C13_ResetRestores ==
    last = "ResetTimerClick" =>
        /\ ~timerSettings.active
        /\ timeRemaining = timerSettings.minutes * 60 + timerSettings.seconds

\* C13 witness: reset was pressed while the timer was running at 0, and the
\* configured two minutes are restored.
C13_Witness ==
    /\ last = "ResetTimerClick"
    /\ before.remaining = 0 /\ before.active
    /\ timeRemaining = 120
    /\ ~timerSettings.active

\* The thresholds of the cues and their names, in the order of a countdown.
Thresholds == <<30, 15, 5, 0>>
CueNames == <<"thirtySecond", "fifteenSecond", "fiveSecond", "timeUp">>

\* The cues of the thresholds a countdown from start has reached when the
\* remaining time is now: those v with now <= v < start.
RECURSIVE CuesFrom(_, _, _)
CuesFrom(i, start, now) ==
    IF i > Len(Thresholds) THEN <<>>
    ELSE (IF now <= Thresholds[i] /\ Thresholds[i] < start
          THEN <<CueNames[i]>> ELSE <<>>) \o CuesFrom(i + 1, start, now)

ExpectedCues(start, now) == CuesFrom(1, start, now)

\* C14: in an uninterrupted run with sound enabled the cues played so far
\* are exactly those of the thresholds 30, 15, 5 and 0 that a post-decrement
\* value has equalled, each once and in the order of the countdown.
C14_EachCueOnce ==
    run.on =>
        /\ timeRemaining <= run.start
        /\ run.cues = ExpectedCues(run.start, timeRemaining)

\* C14 witness: a run from 2:00 has ticked down to 0 and played the four
\* cues.
C14_Witness ==
    /\ run.on /\ run.start = 120
    /\ last = "Tick" /\ timeRemaining = 0
    /\ run.cues = CueNames

\* A run with sound enabled that began at 5 with the timer configured to
\* 0 minutes 5 seconds has ticked 5 times.
FiveSecondRunDone ==
    /\ run.on /\ run.start = 5
    /\ timerSettings.minutes = 0 /\ timerSettings.seconds = 5
    /\ last = "Tick" /\ timeRemaining = 0

\* C15 as stated: configured to 0m5s, start and 5 ticks play the 5s cue,
\* then the time-up cue.
C15_FiveThenTimeUp ==
    FiveSecondRunDone => run.cues = <<"fiveSecond", "timeUp">>

\* C15 amended: configured to 0m5s, start and 5 ticks play the time-up cue
\* and no other: the post-decrement values are 4, 3, 2, 1 and 0.
C15_TimeUpOnly ==
    FiveSecondRunDone => run.cues = <<"timeUp">>

\* C15 witness: the 0m5s run has ended and its log holds one cue.
C15_Witness == FiveSecondRunDone /\ Len(run.cues) = 1

\* C16: the round plan always holds at least one round, and a removal
\* attempted on a plan of one round leaves the plan and the cursor unchanged.
C16_AtLeastOneRound ==
    /\ [](Len(rounds) >= 1)
    /\ [][(last' = "RemoveRound" /\ Len(rounds) = 1) =>
            (rounds' = rounds /\ currentRound' = currentRound)]_vars

\* C16 witness: a removal was attempted on a plan of one round.
C16_Witness ==
    /\ last = "RemoveRound"
    /\ before.rounds = 1
    /\ Len(rounds) = 1 /\ currentRound = 0

\* C17: 0 <= cursor < len(RoundPlan) in every reachable state.
C17_CursorInBounds == 0 <= currentRound /\ currentRound < Len(rounds)

\* C17 witness: a round was removed while the cursor was on the last of
\* three rounds, and the cursor was clamped to the last of two.
C17_Witness ==
    /\ last = "RemoveRound"
    /\ before.rounds = 3 /\ before.cursor = 2
    /\ Len(rounds) = 2 /\ currentRound = 1

\* C18: every round of the plan has durationSeconds >= 5.
C18_DurationFloor == \A i \in DOMAIN rounds : rounds[i].duration >= 5

\* C19: advance() with the cursor before the last round moves the cursor by
\* one, loads the new active round's duration as the configured duration
\* (minutes * 60 + seconds) and as remainingSeconds, and leaves the timer not
\* running and the plan as it was; with the cursor at the last round it
\* changes nothing.
C19_Advance ==
    [][last' = "NextRoundClick" =>
         IF currentRound < Len(rounds) - 1
         THEN /\ currentRound' = currentRound + 1
              /\ rounds' = rounds
              /\ timerSettings'.minutes * 60 + timerSettings'.seconds
                    = rounds[currentRound' + 1].duration
              /\ timeRemaining' = rounds[currentRound' + 1].duration
              /\ ~timerSettings'.active
         ELSE UNCHANGED <<currentRound, rounds, timerSettings,
                          timeRemaining>>]_vars

\* C20: the tick that brings remainingSeconds to 0 submits the draft and the
\* stance of the moment of the tick, onto the transcript of that moment, iff
\* that draft is non-empty after trimming.
C20_AutoSubmitCurrent ==
    [][(last' = "Tick" /\ timeRemaining' = 0) =>
         IF ~IsBlankDraft(userInput)
         THEN /\ conversations' =
                   Append(conversations, UserMessage(userInput, stance))
              /\ userInput' = <<>>
         ELSE conversations' = conversations /\ userInput' = userInput]_vars

\* C21: no cue is emitted on a tick that occurs while the sound-enabled flag
\* is disabled, also when the flag was disabled after the previous tick.
C21_CueGatedByFlag ==
    [][(last' = "Tick" /\ ~soundEnabled) => played' = "none"]_vars

\* C22: renaming a round or changing a round's duration changes one entry of
\* the plan at most, and of it the edited field only; remainingSeconds,
\* isRunning, the configured duration, the live interval and the cursor are
\* unchanged, also when the edited round is the active one.
C22_RoundEditLocal ==
    [][last' \in {"RenameRound", "SetRoundDuration"} =>
         /\ UNCHANGED <<timeRemaining, timerSettings, currentRound, intervals>>
         /\ Len(rounds') = Len(rounds)
         /\ Cardinality({i \in DOMAIN rounds : rounds'[i] # rounds[i]}) <= 1
         /\ \A i \in DOMAIN rounds :
               IF last' = "RenameRound"
               THEN rounds'[i].duration = rounds[i].duration
               ELSE rounds'[i].name = rounds[i].name]_vars

\* C22 witness: the duration of the active round was set to 3 while the
\* timer was running at 1:59, and the timer is as it was.
C22_Witness ==
    /\ last = "SetRoundDuration"
    /\ currentRound = 0
    /\ rounds = [InitialRounds EXCEPT ![1].duration = 3]
    /\ before.remaining = 119 /\ before.active
    /\ timeRemaining = 119 /\ timerSettings.active /\ intervals = 1

\* C23: pressing the quick-start button for N minutes leaves the timer
\* running with the configured duration N minutes 0 seconds and
\* remainingSeconds = N * 60.
C23_QuickStartLoadsN ==
    [][\A n \in QuickMinutes : QuickStart(n) =>
          /\ timerSettings' = [minutes |-> n, seconds |-> 0, active |-> TRUE]
          /\ timeRemaining' = n * 60]_vars

====
